---- MODULE Spec2Model ----
(***************************************************************************)
(* Model of the Reddit-to-TikTok video creator:                            *)
(*   - RedditTikTokAgent (src/src/main_agent.py): the seven-node linear    *)
(*     LangGraph workflow run by run(), with its collaborators;            *)
(*   - VideoCreationScheduler (src/scheduler.py): the admission check      *)
(*     _can_create_video_now over the clock, the schedule configuration    *)
(*     and the two persisted files.                                        *)
(*   - the functions the two call: the assessor's parsing of ratings       *)
(*     (src/src/content_assessor.py), the script length limit              *)
(*     (src/src/tts_generator.py) and the upload queue of VideoOrganizer   *)
(*     (src/src/video_organizer.py).                                       *)
(* Ratings are kept in tenths of a point (7.0 is 70); times in minutes.    *)
(***************************************************************************)
EXTENDS Integers, Sequences, FiniteSets, TLC

VARIABLES
    pc,             \* the graph node the run is about to execute ("idle" outside run())
    state,          \* the AgentState flowing through the graph
    config,         \* RedditTikTokAgent.config
    calls,          \* collaborator invocations of the current run, in order
    started,        \* graph nodes started in the current run, in order
    first_error,    \* error_message set by the first failing node of the current run
    edge_available, \* EDGE_TTS_AVAILABLE
    schedule_config,\* VideoCreationScheduler.schedule_config
    now,            \* the wall clock, in minutes since Monday 00:00
    stats_file,     \* content of scheduler_stats.json
    last_run_file,  \* content of last_run.json
    admission,      \* what the last call of _can_create_video_now did
    spc,            \* per scheduler process: its position in create_scheduled_video
    local,          \* per scheduler process: the locals of the tick in progress
    tick,           \* per scheduler process: what its current or last tick has done
    recorded,       \* the ratings passed to _update_stats(True, 1, rating), in order
    other_run,      \* a call of run() made while the run of pc has not returned
    batch,          \* the call of run_batch in progress or last made
    probe,          \* the last call of a function of the library: arguments and result
    organizer       \* VideoOrganizer: the video files and upload_queue.json

vars == <<pc, state, config, calls, started, first_error,
          edge_available, schedule_config, now, stats_file, last_run_file, admission,
          spc, local, tick, recorded, other_run, batch, probe, organizer>>

agentVars == <<pc, state, config, calls, started, first_error,
               edge_available>>

schedVars == <<schedule_config, now, stats_file, last_run_file, admission>>

tickVars == <<spc, local, tick, recorded>>

callVars == <<other_run, batch>>

libVars == <<probe, organizer>>

----------------------------------------------------------------------------
(* Bounds of the model *)

MaxPosts == 2
MaxScore == 2
MaxComments == 1
MaxDailyVideos == 3
MaxElapsed == 2
MaxTicks == 3
MaxBatch == 3
MaxSentences == 3
MaxVideos == 2

----------------------------------------------------------------------------
(* Posts and the AgentState *)

\* The dict {} : no key at all.  Real posts carry ids 1, 2, ...
EmptyDict == [id |-> 0, score |-> 0, num_comments |-> 0, rated |-> FALSE, humor_rating |-> 0]

IsEmptyDict(post) == post.id = 0

\* _extract_post_data: a fetched post has id, score, num_comments (and the text
\* fields, always present), and no 'humor_rating' key.
FetchedPost(i, s, c) ==
    [id |-> i, score |-> s, num_comments |-> c, rated |-> FALSE, humor_rating |-> 0]

\* sort(key=score, reverse=True): the scores of n fetched posts, highest first
SortedScores(n) ==
    { sc \in [1..n -> 1..MaxScore] : \A i \in 1..(n - 1) : sc[i] >= sc[i + 1] }

\* get_funny_posts returns the posts sorted by score, highest first.
FetchResults ==
    UNION { { [i \in 1..n |-> FetchedPost(i, sc[i], cm[i])] :
                sc \in SortedScores(n), cm \in [1..n -> 0..MaxComments] } :
            n \in 0..MaxPosts }

NoError == [stage |-> "", detail |-> ""]

StageError(stage, detail) == [stage |-> stage, detail |-> detail]

\* run(): the initial AgentState
InitialState ==
    [ posts            |-> <<>>,
      selected_post    |-> EmptyDict,
      optimized_script |-> "",
      audio_path       |-> "",
      video_path       |-> "",
      metadata         |-> EmptyDict,
      creation_status  |-> "starting",
      error_message    |-> NoError,
      creation_stats   |-> {"start_time"} ]

Failed(s, stage, detail) ==
    [s EXCEPT !.creation_status = "failed", !.error_message = StageError(stage, detail)]

----------------------------------------------------------------------------
(* Collaborators *)

\* Outcomes of _assess_single_post: the rating parsed from the answer, or the
\* neutral 5.0 returned on an API error.
AssessRatings == {50, 80, 90}

\* list.sort(key=humor_rating, reverse=True): stable, highest rating first.
RECURSIVE InsertByRating(_, _)
InsertByRating(post, sorted) ==
    IF sorted = <<>> THEN <<post>>
    ELSE IF Head(sorted).humor_rating >= post.humor_rating
         THEN <<Head(sorted)>> \o InsertByRating(post, Tail(sorted))
         ELSE <<post>> \o sorted

RECURSIVE SortByRating(_)
SortByRating(posts) ==
    IF posts = <<>> THEN <<>>
    ELSE InsertByRating(posts[Len(posts)], SortByRating(SubSeq(posts, 1, Len(posts) - 1)))

RECURSIVE AcceptedPosts(_, _, _)
AcceptedPosts(posts, min_rating, ratings) ==
    IF posts = <<>> THEN <<>>
    ELSE LET n == Len(posts)
             rest == AcceptedPosts(SubSeq(posts, 1, n - 1), min_rating, ratings)
         IN IF ratings[n] >= min_rating
            THEN Append(rest, [posts[n] EXCEPT !.rated = TRUE, !.humor_rating = ratings[n]])
            ELSE rest

\* ContentAssessor.assess_humor_quality: keep the posts rated at least
\* min_rating, store the rating in the post, sort by rating descending.
assess_humor_quality(posts, min_rating, ratings) ==
    SortByRating(AcceptedPosts(posts, min_rating, ratings))

ByRating(p, q) == p.humor_rating > q.humor_rating

ByScore(p, q) == p.score > q.score

MaxOf(a, b) == IF a >= b THEN a ELSE b

\* num_comments / max(score, 1), compared without division
ByEngagement(p, q) ==
    p.num_comments * MaxOf(q.score, 1) > q.num_comments * MaxOf(p.score, 1)

\* Whether p's key is greater than q's, for the key of the strategy
Beats(strategy, p, q) ==
    IF strategy = "most_upvoted" THEN ByScore(p, q)
    ELSE IF strategy = "best_engagement" THEN ByEngagement(p, q)
    ELSE ByRating(p, q)

\* max as it would be if it kept the last of the posts no other post beats
LastMax(posts, strategy) ==
    LET best == CHOOSE i \in 1..Len(posts) :
                    /\ \A j \in 1..Len(posts) : ~Beats(strategy, posts[j], posts[i])
                    /\ \A k \in (i + 1)..Len(posts) :
                           \E j \in 1..Len(posts) : Beats(strategy, posts[j], posts[k])
    IN posts[best]

\* max(posts, key=...): the first post no other post beats.
FirstMax(posts, strategy) ==
    LET best == CHOOSE i \in 1..Len(posts) :
                    /\ \A j \in 1..Len(posts) : ~Beats(strategy, posts[j], posts[i])
                    /\ \A k \in 1..(i - 1) :
                           \E j \in 1..Len(posts) : Beats(strategy, posts[j], posts[k])
    IN posts[best]

\* One collaborator invocation, as a mock would record it
Call(fn, raised) == [fn |-> fn, raised |-> raised]

\* generate_with_fallback as it would be without the Edge TTS retry
generate_without_fallback(primary_ok, secondary_ok, edge) ==
    IF primary_ok
    THEN [calls |-> <<Call("generate_speech_openai", FALSE)>>, ok |-> TRUE,
          audio_path |-> "openai.mp3", error |-> ""]
    ELSE [calls |-> <<Call("generate_speech_openai", TRUE)>>, ok |-> FALSE,
          audio_path |-> "", error |-> "openai_error"]

\* TTSGenerator.generate_with_fallback: OpenAI first, Edge TTS when OpenAI
\* raises and the edge_tts module was importable.
generate_with_fallback(primary_ok, secondary_ok, edge) ==
    IF primary_ok
    THEN [calls |-> <<Call("generate_speech_openai", FALSE)>>, ok |-> TRUE,
          audio_path |-> "openai.mp3", error |-> ""]
    ELSE IF edge
         THEN IF secondary_ok
              THEN [calls |-> <<Call("generate_speech_openai", TRUE),
                                Call("generate_speech_edge", FALSE)>>,
                    ok |-> TRUE, audio_path |-> "edge.mp3", error |-> ""]
              ELSE [calls |-> <<Call("generate_speech_openai", TRUE),
                                Call("generate_speech_edge", TRUE)>>,
                    ok |-> FALSE, audio_path |-> "", error |-> "edge_error"]
         ELSE [calls |-> <<Call("generate_speech_openai", TRUE)>>, ok |-> FALSE,
               audio_path |-> "", error |-> "openai_error"]

----------------------------------------------------------------------------
(* The seven graph nodes, as functions of the AgentState *)

\* fetch_reddit_content; out is what get_funny_posts did
fetch_reddit_content(s, out) ==
    IF out.raises THEN Failed(s, "Reddit fetch error", "exception")
    ELSE IF out.posts = <<>> THEN Failed(s, "", "No suitable posts found on Reddit")
    ELSE [s EXCEPT !.posts = out.posts, !.creation_stats = {"fetch_time"}]

\* assess_content_quality; assessed is what assess_humor_quality returned
assess_content_quality(s, assessed) ==
    IF assessed = <<>> THEN Failed(s, "", "No posts met quality threshold")
    ELSE [s EXCEPT !.posts = assessed,
                   !.creation_stats = @ \cup {"assess_time"}]

\* state["selected_post"] = best_post, then the log lines: the one that
\* reads best_post['humor_rating'] raises KeyError for a post the assessor
\* never accepted, after the post has been stored in the state.
Selected(s, best_post) ==
    IF best_post.rated THEN [s EXCEPT !.selected_post = best_post]
    ELSE Failed([s EXCEPT !.selected_post = best_post],
                "Selection error", "KeyError humor_rating")

\* select_best_post
select_best_post(s, strategy) ==
    LET posts == s.posts IN
    IF posts = <<>> THEN Failed(s, "Selection error", "max() arg is an empty sequence")
    ELSE IF strategy = "most_upvoted"
         THEN Selected(s, FirstMax(posts, "most_upvoted"))
    ELSE IF strategy = "best_engagement"
         THEN Selected(s, FirstMax(posts, "best_engagement"))
    ELSE IF \E i \in 1..Len(posts) : ~posts[i].rated
         THEN Failed(s, "Selection error", "KeyError humor_rating")
         ELSE [s EXCEPT !.selected_post = FirstMax(posts, "highest_rated")]

\* generate_optimized_script: create_engaging_script reads post['title'] first
generate_optimized_script(s) ==
    IF IsEmptyDict(s.selected_post) THEN Failed(s, "Script error", "KeyError title")
    ELSE [s EXCEPT !.optimized_script = "script",
                   !.creation_stats = @ \cup {"script_time"}]

\* Whether create_tts_audio reaches generate_with_fallback: get_voice_for_content
\* and post['id'] raise KeyError on the empty dict.
ReachesSynthesis(s) == ~IsEmptyDict(s.selected_post)

\* create_tts_audio; tts is what generate_with_fallback did
create_tts_audio(s, tts) ==
    IF ~ReachesSynthesis(s) THEN Failed(s, "TTS error", "KeyError")
    ELSE IF ~tts.ok THEN Failed(s, "TTS error", tts.error)
    ELSE [s EXCEPT !.audio_path = tts.audio_path,
                   !.creation_stats = @ \cup {"tts_time"}]

\* VideoCreator.create_tiktok_video raises on post['title'] for the empty dict,
\* on AudioFileClip("") for the empty audio path, and when rendering fails.
RenderError(post, audio_path, render_ok) ==
    IF IsEmptyDict(post) THEN "KeyError title"
    ELSE IF audio_path = "" THEN "audio not found"
    ELSE IF ~render_ok THEN "render failed"
    ELSE ""

\* create_final_video; render_ok is whether moviepy rendered and exported.
create_final_video(s, render_ok) ==
    LET error == RenderError(s.selected_post, s.audio_path, render_ok) IN
    IF error # "" THEN Failed(s, "Video creation error", error)
    ELSE [s EXCEPT !.video_path = "video.mp4",
                   !.creation_stats = @ \cup {"video_time"}]

\* VideoOrganizer.save_video_metadata: for the empty dict _generate_caption
\* raises KeyError before anything is written; a missing video or audio file
\* only zeroes the duration and the size; writing the files may fail.
PersistError(post, io_ok) ==
    IF IsEmptyDict(post) THEN "KeyError subreddit"
    ELSE IF ~io_ok THEN "io error"
    ELSE ""

\* organize_and_save; io_ok is whether the metadata files could be written
organize_and_save(s, io_ok) ==
    LET timed == [s EXCEPT !.creation_stats = @ \cup {"total_time", "organize_time"}]
        error == PersistError(s.selected_post, io_ok)
    IN IF error # "" THEN Failed(timed, "Organization error", error)
       ELSE [timed EXCEPT !.metadata = s.selected_post, !.creation_status = "success"]

----------------------------------------------------------------------------
(* RedditTikTokAgent: configuration, graph and run() *)

Strategies == {"highest_rated", "most_upvoted", "best_engagement"}

\* self.config as given to the constructor
AgentConfigs ==
    [ selection_strategy : Strategies,
      min_humor_rating   : {70} ]

\* **config_overrides of run()
Overrides ==
    { [selection_strategy |-> "most_upvoted"], [min_humor_rating |-> 95] }

\* run_config = {**self.config, **config_overrides}
MergeConfig(cfg, overrides) == overrides @@ cfg

\* _build_graph: the entry point and the edges
EntryPoint == "fetch_content"

\* The edges as they would be with the script node left out of the chain
EdgeSkippingScript ==
    [ fetch_content   |-> "assess_quality",
      assess_quality  |-> "select_best",
      select_best     |-> "create_audio",
      generate_script |-> "create_audio",
      create_audio    |-> "create_video",
      create_video    |-> "organize_output",
      organize_output |-> "END" ]

Edge ==
    [ fetch_content   |-> "assess_quality",
      assess_quality  |-> "select_best",
      select_best     |-> "generate_script",
      generate_script |-> "create_audio",
      create_audio    |-> "create_video",
      create_video    |-> "organize_output",
      organize_output |-> "END" ]

Nodes == DOMAIN Edge

\* What a node's returned state means for the run's records
NoteFailure(s) ==
    IF first_error = NoError /\ s.creation_status = "failed"
    THEN s.error_message ELSE first_error

\* A node of the graph runs: node is its name, s the state it returns and
\* invoked the collaborator calls it made.
NodeStep(node, s, invoked) ==
    /\ state' = s
    /\ calls' = calls \o invoked
    /\ started' = Append(started, node)
    /\ first_error' = NoteFailure(s)
    /\ pc' = Edge[node]

\* run(**config_overrides): merge the configuration, build the initial state
\* and enter the graph.
Run ==
    /\ pc = "idle"
    /\ \E overrides \in Overrides \cup {<<>>} :
          config' = MergeConfig(config, overrides)
    /\ state' = InitialState
    /\ calls' = <<>>
    /\ started' = <<>>
    /\ first_error' = NoError
    /\ pc' = EntryPoint
    /\ UNCHANGED edge_available

FetchContent ==
    /\ pc = "fetch_content"
    /\ \E out \in {[raises |-> TRUE, posts |-> <<>>]}
                    \cup {[raises |-> FALSE, posts |-> ps] : ps \in FetchResults} :
          NodeStep("fetch_content", fetch_reddit_content(state, out),
                   <<Call("get_funny_posts", out.raises)>>)
    /\ UNCHANGED <<config, edge_available>>

AssessQuality ==
    /\ pc = "assess_quality"
    /\ \E ratings \in [1..Len(state.posts) -> AssessRatings] :
          NodeStep("assess_quality",
                   assess_content_quality(state,
                       assess_humor_quality(state.posts, config.min_humor_rating, ratings)),
                   <<Call("assess_humor_quality", FALSE)>>)
    /\ UNCHANGED <<config, edge_available>>

SelectBest ==
    /\ pc = "select_best"
    /\ NodeStep("select_best", select_best_post(state, config.selection_strategy), <<>>)
    /\ UNCHANGED <<config, edge_available>>

GenerateScript ==
    /\ pc = "generate_script"
    /\ NodeStep("generate_script", generate_optimized_script(state),
                <<Call("create_engaging_script", IsEmptyDict(state.selected_post))>>)
    /\ UNCHANGED <<config, edge_available>>

CreateAudio ==
    /\ pc = "create_audio"
    /\ \E primary_ok \in BOOLEAN, secondary_ok \in BOOLEAN :
          LET tts == generate_with_fallback(primary_ok, secondary_ok, edge_available) IN
          NodeStep("create_audio", create_tts_audio(state, tts),
                   IF ReachesSynthesis(state) THEN tts.calls ELSE <<>>)
    /\ UNCHANGED <<config, edge_available>>

CreateVideo ==
    /\ pc = "create_video"
    /\ \E render_ok \in BOOLEAN :
          NodeStep("create_video", create_final_video(state, render_ok),
                   <<Call("create_tiktok_video",
                          RenderError(state.selected_post, state.audio_path, render_ok) # "")>>)
    /\ UNCHANGED <<config, edge_available>>

OrganizeOutput ==
    /\ pc = "organize_output"
    /\ \E io_ok \in BOOLEAN :
          NodeStep("organize_output", organize_and_save(state, io_ok),
                   <<Call("save_video_metadata",
                          PersistError(state.selected_post, io_ok) # "")>>)
    /\ UNCHANGED <<config, edge_available>>

\* graph.ainvoke returned: run() prints the results and returns the final state
Return ==
    /\ pc = "END"
    /\ pc' = "idle"
    /\ UNCHANGED <<state, config, calls, started, first_error,
                   edge_available>>

----------------------------------------------------------------------------
(* VideoCreationScheduler *)

\* Defaults of __init__: SCHEDULE_MAX_VIDEOS_PER_DAY and SCHEDULE_MIN_GAP_MINUTES
DefaultMaxVideosPerDay == 6

DefaultMinGapMinutes == 30

\* The clock: minutes since a Monday 00:00.  now.hour, now.weekday() and
\* now.strftime('%Y-%m-%d') (the day number stands for the date).
HourOf(t) == (t \div 60) % 24

DateOf(t) == t \div 1440

WeekdayOf(t) == DateOf(t) % 7

\* _init_stats_file: the zeroed structure.  kind tells a readable record
\* ("ok") from an absent file and from bytes json.load rejects ("corrupt");
\* missing holds the keys a readable record lacks.
DefaultStats ==
    [ kind                 |-> "ok",
      missing              |-> {},
      total_scheduled_runs |-> 0,
      successful_runs      |-> 0,
      failed_runs          |-> 0,
      videos_created       |-> 0,
      average_humor_rating |-> [num |-> 0, den |-> 1],
      daily_video_count    |-> <<>> ]

\* _load_stats as it would be without its except branch
load_stats_without_heal(file) == file

\* _load_stats: the record read, or the zeroed one written anew when the
\* file cannot be read.
load_stats(file) == IF file.kind = "ok" THEN file ELSE DefaultStats

\* dict.get(key, default)
Get(dict, key, default) == IF key \in DOMAIN dict THEN dict[key] ELSE default

NoLastRun == [kind |-> "absent", has_timestamp |-> FALSE, timestamp |-> 0, status |-> ""]

\* Whether the try block of the gap check runs to its comparison: the file
\* exists, json.load reads it and it has a 'timestamp'.
LastRunReadable(last_run) == last_run.kind = "ok" /\ last_run.has_timestamp

\* The quiet-hours test as it would be without the branch for a range
\* that spans midnight
IsQuietHourNoWrap(current_hour, quiet_hours) ==
    quiet_hours[1] <= current_hour /\ current_hour < quiet_hours[2]

\* The quiet-hours test of _can_create_video_now
IsQuietHour(current_hour, quiet_hours) ==
    LET quiet_start == quiet_hours[1]
        quiet_end   == quiet_hours[2]
    IN IF quiet_start > quiet_end
       THEN current_hour >= quiet_start \/ current_hour < quiet_end
       ELSE quiet_start <= current_hour /\ current_hour < quiet_end

\* The weekend test of _can_create_video_now
IsWeekendBlocked(t, cfg) == ~cfg.weekend_schedule /\ WeekdayOf(t) >= 5

\* The daily-limit test as it would be with > for >=
IsDailyLimitExceeded(t, cfg, stats) ==
    Get(stats.daily_video_count, DateOf(t), 0) > cfg.max_videos_per_day

\* The daily-limit test, on the loaded stats
IsDailyLimitReached(t, cfg, stats) ==
    Get(stats.daily_video_count, DateOf(t), 0) >= cfg.max_videos_per_day

\* The minimum-gap test as it would be with <= for <
IsTooSoonInclusive(t, cfg, last_run) ==
    LastRunReadable(last_run) /\ t - last_run.timestamp <= cfg.min_gap_minutes

\* The minimum-gap test: gap_minutes < min_gap_minutes
IsTooSoon(t, cfg, last_run) ==
    LastRunReadable(last_run) /\ t - last_run.timestamp < cfg.min_gap_minutes

NoAdmission == [called |-> FALSE, raised |-> FALSE, allowed |-> FALSE, reason |-> ""]

Returned(allowed, reason) ==
    [called |-> TRUE, raised |-> FALSE, allowed |-> allowed, reason |-> reason]

Raised(error) == [called |-> TRUE, raised |-> TRUE, allowed |-> FALSE, reason |-> error]

\* _can_create_video_now as it would be with the gap checked first
can_create_video_now_gap_first(t, cfg, stats, last_run) ==
    IF IsTooSoon(t, cfg, last_run) THEN Returned(FALSE, "Too soon since last run")
    ELSE IF IsQuietHour(HourOf(t), cfg.quiet_hours) THEN Returned(FALSE, "Quiet hours")
    ELSE IF IsWeekendBlocked(t, cfg) THEN Returned(FALSE, "Weekend creation disabled")
    ELSE IF "daily_video_count" \in load_stats(stats).missing
         THEN Raised("KeyError daily_video_count")
    ELSE IF IsDailyLimitReached(t, cfg, load_stats(stats))
         THEN Returned(FALSE, "Daily limit reached")
    ELSE Returned(TRUE, "All checks passed")

\* _can_create_video_now at time t: the tuple it returns, or the exception
\* it lets through (stats['daily_video_count'] on a record without that key).
can_create_video_now(t, cfg, stats, last_run) ==
    IF IsQuietHour(HourOf(t), cfg.quiet_hours) THEN Returned(FALSE, "Quiet hours")
    ELSE IF IsWeekendBlocked(t, cfg) THEN Returned(FALSE, "Weekend creation disabled")
    ELSE IF "daily_video_count" \in load_stats(stats).missing
         THEN Raised("KeyError daily_video_count")
    ELSE IF IsDailyLimitReached(t, cfg, load_stats(stats))
         THEN Returned(FALSE, "Daily limit reached")
    ELSE IF IsTooSoon(t, cfg, last_run) THEN Returned(FALSE, "Too soon since last run")
    ELSE Returned(TRUE, "All checks passed")

\* The stats file after _can_create_video_now: _load_stats rewrites an
\* unreadable file, when the check gets as far as loading it.
StatsAfterCheck(t, cfg, stats) ==
    IF IsQuietHour(HourOf(t), cfg.quiet_hours) \/ IsWeekendBlocked(t, cfg)
    THEN stats ELSE load_stats(stats)

\* A call of _can_create_video_now
CheckAdmission ==
    /\ ~admission.called
    /\ admission' = can_create_video_now(now, schedule_config, stats_file, last_run_file)
    /\ stats_file' = StatsAfterCheck(now, schedule_config, stats_file)
    /\ UNCHANGED <<schedule_config, now, last_run_file>>

\* A minute passes; the caller has dropped the tuple it got.
AdvanceClock ==
    /\ now % 60 < MaxElapsed
    /\ now' = now + 1
    /\ admission' = NoAdmission
    /\ UNCHANGED <<schedule_config, stats_file, last_run_file>>

\* The scheduler as it stands while only the agent is exercised
SchedulerAtRest ==
    /\ schedule_config = [quiet_hours |-> <<23, 6>>, weekend_schedule |-> TRUE,
                          max_videos_per_day |-> DefaultMaxVideosPerDay,
                          min_gap_minutes |-> DefaultMinGapMinutes]
    /\ now = 0
    /\ stats_file = DefaultStats
    /\ last_run_file = NoLastRun
    /\ admission = NoAdmission

----------------------------------------------------------------------------
(* VideoCreationScheduler: the stores and create_scheduled_video *)

\* The scheduler processes that share the two files: the one started with
\* the `start` command and one started with `once`.
Procs == {1, 2}

\* Default of SCHEDULE_INTERVAL_HOURS
DefaultIntervalHours == 4

\* average_humor_rating is kept as an exact fraction, in lowest terms
RECURSIVE Gcd(_, _)
Gcd(a, b) == IF b = 0 THEN a ELSE Gcd(b, a % b)

Ratio(num, den) ==
    IF num = 0 THEN [num |-> 0, den |-> 1]
    ELSE [num |-> num \div Gcd(num, den), den |-> den \div Gcd(num, den)]

\* The file while open(path, 'w') has truncated it and json.dump has not
\* finished: json.load rejects it.
TruncatedStats == [DefaultStats EXCEPT !.kind = "corrupt"]

TruncatedLastRun ==
    [kind |-> "corrupt", has_timestamp |-> FALSE, timestamp |-> 0, status |-> ""]

\* The keys of the loaded record that _update_stats reads
UpdateReads(success, humor_rating) ==
    {"total_scheduled_runs", "daily_video_count"}
        \cup (IF success
              THEN {"successful_runs", "videos_created"}
                       \cup (IF humor_rating > 0 THEN {"average_humor_rating"} ELSE {})
              ELSE {"failed_runs"})

\* The running average of _update_stats; total_videos is videos_created
\* after its increment.
NewAverage(current_avg, total_videos, humor_rating) ==
    IF humor_rating > 0
    THEN IF total_videos > 1
         THEN Ratio(current_avg.num * (total_videos - 1) + humor_rating * current_avg.den,
                    current_avg.den * total_videos)
         ELSE Ratio(humor_rating, 1)
    ELSE current_avg

\* _update_stats as it would be without the else branch that counts a
\* failed run
update_stats_without_failures(stats, success, video_count, humor_rating, t) ==
    [stats EXCEPT
        !.total_scheduled_runs = @ + 1,
        !.successful_runs      = IF success THEN @ + 1 ELSE @,
        !.videos_created       = IF success THEN @ + video_count ELSE @,
        !.average_humor_rating = IF success
                                 THEN NewAverage(@, stats.videos_created + video_count,
                                                 humor_rating)
                                 ELSE @,
        !.daily_video_count    = (DateOf(t) :> (Get(@, DateOf(t), 0) + video_count)) @@ @]

\* _update_stats between its load and its save: the record it will save
update_stats(stats, success, video_count, humor_rating, t) ==
    LET total_videos == IF success THEN stats.videos_created + video_count
                        ELSE stats.videos_created
    IN [stats EXCEPT
          !.total_scheduled_runs = @ + 1,
          !.successful_runs      = IF success THEN @ + 1 ELSE @,
          !.failed_runs          = IF success THEN @ ELSE @ + 1,
          !.videos_created       = total_videos,
          !.average_humor_rating = IF success
                                   THEN NewAverage(@, total_videos, humor_rating)
                                   ELSE @,
          !.daily_video_count    = (DateOf(t) :> (Get(@, DateOf(t), 0) + video_count)) @@ @]

\* What the try block of create_scheduled_video got from the agent: the
\* dict run() returned, or an exception (the constructor of the agent raises
\* when a credential is missing).  humor_rating is
\* metadata['reddit_data']['humor_rating'], 0 for a post that was never rated.
NoResult == [raised |-> FALSE, status |-> "", humor_rating |-> 0]

TickRatings == {0, 60, 80, 100}

RunOutcomes ==
    { [raised |-> FALSE, status |-> "success", humor_rating |-> r] : r \in TickRatings }
        \cup { [raised |-> FALSE, status |-> "failed", humor_rating |-> 0],
               [raised |-> TRUE, status |-> "", humor_rating |-> 0] }

\* crash_result of the except block
CrashResult == [raised |-> FALSE, status |-> "crashed", humor_rating |-> 0]

\* _record_run: the run_data written to last_run.json
run_data(t, result) ==
    [kind |-> "ok", has_timestamp |-> TRUE, timestamp |-> t, status |-> result.status]

NoLocal == [result |-> NoResult, handling |-> FALSE, pending |-> DefaultStats]

NoTick ==
    [ number |-> 0, stats_found |-> "", stats_before |-> DefaultStats,
      last_run_before |-> NoLastRun,
      engine_calls |-> 0, updates |-> 0, outcome |-> NoResult ]

\* create_scheduled_video as it would be without the early return on a
\* denial
TickAdmissionWithoutReturn(p) ==
    /\ spc[p] = "idle"
    /\ tick[p].number < MaxTicks
    /\ LET outcome == can_create_video_now(now, schedule_config, stats_file, last_run_file)
       IN /\ admission' = outcome
          /\ spc' = [spc EXCEPT ![p] = IF outcome.raised THEN "raised" ELSE "run"]
    /\ stats_file' = StatsAfterCheck(now, schedule_config, stats_file)
    /\ tick' = [tick EXCEPT ![p] =
                   [ number          |-> @.number + 1,
                     stats_found     |-> stats_file.kind,
                     stats_before    |-> load_stats(stats_file),
                     last_run_before |-> last_run_file,
                     engine_calls    |-> 0,
                     updates         |-> @.updates,
                     outcome         |-> NoResult ]]
    /\ local' = [local EXCEPT ![p] = NoLocal]
    /\ UNCHANGED <<schedule_config, now, last_run_file, recorded>>

\* create_scheduled_video up to its early return: the admission check
TickAdmission(p) ==
    /\ spc[p] = "idle"
    /\ tick[p].number < MaxTicks
    /\ LET outcome == can_create_video_now(now, schedule_config, stats_file, last_run_file)
       IN /\ admission' = outcome
          /\ spc' = [spc EXCEPT ![p] = IF outcome.raised THEN "raised"
                                       ELSE IF outcome.allowed THEN "run" ELSE "idle"]
    /\ stats_file' = StatsAfterCheck(now, schedule_config, stats_file)
    /\ tick' = [tick EXCEPT ![p] =
                   [ number          |-> @.number + 1,
                     stats_found     |-> stats_file.kind,
                     stats_before    |-> load_stats(stats_file),
                     last_run_before |-> last_run_file,
                     engine_calls    |-> 0,
                     updates         |-> @.updates,
                     outcome         |-> NoResult ]]
    /\ local' = [local EXCEPT ![p] = NoLocal]
    /\ UNCHANGED <<schedule_config, now, last_run_file, recorded>>

\* The call of the agent as it would be outside the try block: an exception
\* leaves create_scheduled_video
TickRunWithoutExcept(p) ==
    /\ spc[p] = "run"
    /\ \E outcome \in RunOutcomes :
          /\ local' = [local EXCEPT ![p] = [@ EXCEPT !.result = outcome]]
          /\ spc' = [spc EXCEPT ![p] = IF outcome.raised THEN "raised" ELSE "record"]
          /\ tick' = [tick EXCEPT ![p].engine_calls = IF outcome.raised THEN @ ELSE @ + 1,
                                  ![p].outcome = outcome]
    /\ UNCHANGED <<schedule_config, now, stats_file, last_run_file, admission, recorded>>

\* The try block up to the return of self.agent.run(**config); an exception
\* enters the except block.
TickRun(p) ==
    /\ spc[p] = "run"
    /\ \E outcome \in RunOutcomes :
          /\ local' = [local EXCEPT ![p] =
                          IF outcome.raised
                          THEN [@ EXCEPT !.result = CrashResult, !.handling = TRUE]
                          ELSE [@ EXCEPT !.result = outcome]]
          /\ spc' = [spc EXCEPT ![p] = IF outcome.raised THEN "update" ELSE "record"]
          /\ tick' = [tick EXCEPT ![p].engine_calls = IF outcome.raised THEN @ ELSE @ + 1,
                                  ![p].outcome = outcome]
    /\ UNCHANGED <<schedule_config, now, stats_file, last_run_file, admission, recorded>>

\* _record_run: open(self.last_run_file, 'w') truncates the file
RecordRunOpen(p) ==
    /\ spc[p] = "record"
    /\ last_run_file' = TruncatedLastRun
    /\ spc' = [spc EXCEPT ![p] = "record_w"]
    /\ UNCHANGED <<schedule_config, now, stats_file, admission, local, tick, recorded>>

\* _record_run: json.dump has written run_data and the file is closed
RecordRunDump(p) ==
    /\ spc[p] = "record_w"
    /\ last_run_file' = run_data(now, local[p].result)
    /\ spc' = [spc EXCEPT ![p] = IF local[p].handling THEN "idle" ELSE "update"]
    /\ UNCHANGED <<schedule_config, now, stats_file, admission, local, tick, recorded>>

\* Whether the pending _update_stats call is _update_stats(True, 1, rating)
UpdatesSuccess(p) == ~local[p].handling /\ local[p].result.status = "success"

\* _update_stats: _load_stats and the changes to the loaded dict; a key the
\* record lacks raises KeyError, into the except block or out of it.
UpdateStatsLoad(p) ==
    /\ spc[p] = "update"
    /\ LET stats   == load_stats(stats_file)
           success == UpdatesSuccess(p)
           rating  == IF success THEN local[p].result.humor_rating ELSE 0
           raises  == UpdateReads(success, rating) \cap stats.missing # {}
       IN /\ stats_file' = stats
          /\ local' = [local EXCEPT ![p] =
                          IF raises
                          THEN [@ EXCEPT !.result = CrashResult, !.handling = TRUE]
                          ELSE [@ EXCEPT !.pending =
                                   update_stats(stats, success, IF success THEN 1 ELSE 0,
                                                rating, now)]]
          /\ spc' = [spc EXCEPT ![p] = IF ~raises THEN "save"
                                       ELSE IF local[p].handling THEN "raised" ELSE "update"]
    /\ UNCHANGED <<schedule_config, now, last_run_file, admission, tick, recorded>>

\* _save_stats: open(self.stats_file, 'w') truncates the file
SaveStatsOpen(p) ==
    /\ spc[p] = "save"
    /\ stats_file' = TruncatedStats
    /\ spc' = [spc EXCEPT ![p] = "save_w"]
    /\ UNCHANGED <<schedule_config, now, last_run_file, admission, local, tick, recorded>>

\* _save_stats: json.dump has written the record and the file is closed
SaveStatsDump(p) ==
    /\ spc[p] = "save_w"
    /\ stats_file' = local[p].pending
    /\ spc' = [spc EXCEPT ![p] = IF local[p].handling THEN "record" ELSE "summary"]
    /\ tick' = [tick EXCEPT ![p].updates = @ + 1]
    /\ recorded' = IF UpdatesSuccess(p)
                   THEN Append(recorded, local[p].result.humor_rating) ELSE recorded
    /\ UNCHANGED <<schedule_config, now, last_run_file, admission, local>>

\* _print_run_summary: it loads the stats again and reads four of their keys
PrintRunSummary(p) ==
    /\ spc[p] = "summary"
    /\ LET stats  == load_stats(stats_file)
           raises == {"daily_video_count", "videos_created", "successful_runs",
                      "total_scheduled_runs"} \cap stats.missing # {}
       IN /\ stats_file' = stats
          /\ local' = [local EXCEPT ![p] =
                          IF raises
                          THEN [@ EXCEPT !.result = CrashResult, !.handling = TRUE]
                          ELSE @]
          /\ spc' = [spc EXCEPT ![p] = IF raises THEN "update" ELSE "idle"]
    /\ UNCHANGED <<schedule_config, now, last_run_file, admission, tick, recorded>>

\* The process is killed in the middle of a tick
Crash(p) ==
    /\ spc[p] \notin {"idle", "raised", "dead"}
    /\ spc' = [spc EXCEPT ![p] = "dead"]
    /\ UNCHANGED <<schedule_config, now, stats_file, last_run_file, admission, local, tick,
                   recorded>>

\* How long a run of the agent is taken to last, in minutes
RunMinutes == 20

\* The clock goes on while create_scheduled_video awaits self.agent.run():
\* followed where the date changes during the run
RunLasts(p) ==
    /\ spc[p] = "run"
    /\ DateOf(now + RunMinutes) # DateOf(now)
    /\ now' = now + RunMinutes
    /\ UNCHANGED <<schedule_config, stats_file, last_run_file, admission, spc, local, tick,
                   recorded>>

\* run_continuous: the job is due again interval_hours after it ran
WaitForNextRun ==
    /\ \A p \in Procs : spc[p] \in {"idle", "raised", "dead"}
    /\ admission.called
    /\ now' = now + DefaultIntervalHours * 60
    /\ admission' = NoAdmission
    /\ UNCHANGED <<schedule_config, stats_file, last_run_file, spc, local, tick, recorded>>

\* No tick has begun
TickAtRest ==
    /\ spc = [p \in Procs |-> "idle"]
    /\ local = [p \in Procs |-> NoLocal]
    /\ tick = [p \in Procs |-> NoTick]
    /\ recorded = <<>>

----------------------------------------------------------------------------
(* RedditTikTokAgent: overlapping calls of run(), and run_batch *)

\* run() called on the instance while the run of pc awaits inside
\* graph.ainvoke.  run() has no flag, lock or check of a run in progress: the
\* call merges its overrides into self.config, the dict the nodes of the
\* first run read, builds its own initial_state and enters the graph.  The
\* nodes of the second run work on their own AgentState and are not followed.
ConcurrentRun ==
    /\ pc \in Nodes
    /\ other_run = "none"
    /\ \E overrides \in Overrides \cup {<<>>} :
          config' = MergeConfig(config, overrides)
    /\ other_run' = "running"
    /\ UNCHANGED <<pc, state, calls, started, first_error, edge_available>>

\* The overlapping call returns its final state
ConcurrentReturn ==
    /\ other_run = "running"
    /\ other_run' = "returned"
    /\ UNCHANGED agentVars

\* What one await self.run(**config_overrides) of the batch does: returns a
\* final state with creation_status success or failed, or raises
BatchOutcomes == {"success", "failed", "raised"}

\* The element appended to results for one iteration: the dict run()
\* returned, or the dict of the except clause
BatchResult(outcome) ==
    CASE outcome = "success" -> [creation_status |-> "success", error_message |-> ""]
      [] outcome = "failed"  -> [creation_status |-> "failed", error_message |-> "stage error"]
      [] outcome = "raised"  -> [creation_status |-> "failed", error_message |-> "str(e)"]

NoBatch ==
    [ status |-> "idle", in_event_loop |-> FALSE, count |-> 0, overrides |-> <<>>,
      i |-> 0, run_calls |-> 0, outcomes |-> <<>>, results |-> <<>> ]

\* run_batch(count, **config_overrides) up to asyncio.run(create_batch()).
\* asyncio.run raises RuntimeError when the calling thread already runs an
\* event loop (the call is made from a coroutine); create_batch() is then
\* never started.
RunBatch ==
    /\ batch.status \in {"idle", "returned", "raised"}
    /\ \E count \in 0..MaxBatch, in_event_loop \in BOOLEAN,
          overrides \in Overrides \cup {<<>>} :
          batch' = [ status        |-> IF in_event_loop THEN "raised" ELSE "loop",
                     in_event_loop |-> in_event_loop,
                     count         |-> count,
                     overrides     |-> overrides,
                     i             |-> 0,
                     run_calls     |-> 0,
                     outcomes      |-> <<>>,
                     results       |-> <<>> ]
    /\ UNCHANGED agentVars

\* One iteration of `for i in range(count)`: run() merges the overrides into
\* self.config and returns or raises; the try appends the result, the except
\* appends a failed dict; then the sleep between videos.
BatchIteration ==
    /\ batch.status = "loop"
    /\ batch.i < batch.count
    /\ \E outcome \in BatchOutcomes :
          batch' = [batch EXCEPT !.i         = @ + 1,
                                 !.run_calls = @ + 1,
                                 !.outcomes  = Append(@, outcome),
                                 !.results   = Append(@, BatchResult(outcome))]
    /\ config' = MergeConfig(config, batch.overrides)
    /\ UNCHANGED <<pc, state, calls, started, first_error, edge_available>>

\* `return results` of create_batch, handed on by asyncio.run
BatchReturn ==
    /\ batch.status = "loop"
    /\ batch.i = batch.count
    /\ batch' = [batch EXCEPT !.status = "returned"]
    /\ UNCHANGED agentVars

\* No overlapping call and no batch
CallersAtRest ==
    /\ other_run = "none"
    /\ batch = NoBatch

----------------------------------------------------------------------------
(* VideoCreationScheduler: the configuration handed to the agent *)

MinOf(a, b) == IF a <= b THEN a ELSE b

\* No function has been called yet.  The functions below keep no state, so
\* a behaviour makes one call of them.
NoProbe == [fn |-> "none"]

\* _parse_peak_hours(SCHEDULE_PEAK_HOURS): the default '12-14,19-21', one
\* range, two ranges that touch, and a range written across midnight
PeakHourSettings ==
    { <<<<12, 14>>, <<19, 21>>>>, <<<<9, 17>>>>, <<<<12, 14>>, <<14, 16>>>>, <<<<22, 2>>>> }

\* _is_peak_time as it would be with the end of a range included
is_peak_time_end_included(current_hour, peak_hours) ==
    \E i \in 1..Len(peak_hours) :
        peak_hours[i][1] <= current_hour /\ current_hour <= peak_hours[i][2]

\* _is_peak_time: start <= current_hour < end for one of the ranges
is_peak_time(current_hour, peak_hours) ==
    \E i \in 1..Len(peak_hours) :
        peak_hours[i][1] <= current_hour /\ current_hour < peak_hours[i][2]

\* ConfigManager.get_agent_config: the keys _get_optimal_config touches and,
\* for the others, selection_strategy.  CONTENT_MIN_HUMOR_RATING,
\* REDDIT_POST_LIMIT and VIDEO_STYLE give the values.
BaseConfigs ==
    [ min_humor_rating   : {65, 70, 75, 85},
      post_limit         : {10, 15, 20},
      selection_strategy : {"highest_rated"},
      video_style        : {"modern", "minimal", "dynamic", "story"} ]

\* _get_optimal_config: base_config.update(...) of the peak or of the
\* off-peak branch
get_optimal_config(base_config, current_hour, peak_hours) ==
    IF is_peak_time(current_hour, peak_hours)
    THEN [base_config EXCEPT !.min_humor_rating = MaxOf(75, @),
                             !.post_limit       = MinOf(15, @),
                             !.video_style      = "dynamic"]
    ELSE [base_config EXCEPT !.min_humor_rating = @,
                             !.video_style      = "modern"]

\* A call of _get_optimal_config at the hour of the clock
GetOptimalConfig ==
    /\ probe = NoProbe
    /\ \E base_config \in BaseConfigs, peak_hours \in PeakHourSettings :
          probe' = [ fn          |-> "get_optimal_config",
                     base_config |-> base_config,
                     hour        |-> HourOf(now),
                     peak_hours  |-> peak_hours,
                     peak        |-> is_peak_time(HourOf(now), peak_hours),
                     result      |-> get_optimal_config(base_config, HourOf(now),
                                                        peak_hours) ]
    /\ UNCHANGED organizer

\* The text of the assessor's answer, as _parse_assessment_response sees it:
\* a 'RATING:' field followed by a number ("rating_field"), no such field
\* and a number somewhere in the text ("bare_number"), no number at all,
\* or digits and dots that float() rejects ("malformed", e.g. '1.2.3');
\* "api_error" is messages.create raising.  Numbers are in tenths.
ResponseNumbers == {0, 30, 80, 100, 150}

AssessorResponses ==
    { [kind |-> k, value |-> 0] : k \in {"api_error", "no_number", "malformed"} }
        \cup { [kind |-> k, value |-> v] :
                 k \in {"rating_field", "bare_number"}, v \in ResponseNumbers }

\* _parse_assessment_response: the rating of the returned tuple.  Only the
\* number after 'RATING:' is clamped to 1-10; the fallback number is taken
\* as it is; without a number, and when float() raises, the rating is 5.0.
parse_assessment_response(response) ==
    IF response.kind = "rating_field" THEN MaxOf(10, MinOf(100, response.value))
    ELSE IF response.kind = "bare_number" THEN response.value
    ELSE 50

\* _assess_single_post: the parsed rating, or the neutral 5.0 on an API error
assess_single_post(response) ==
    IF response.kind = "api_error" THEN 50 ELSE parse_assessment_response(response)

\* CONTENT_MIN_HUMOR_RATING: the default 7.0, and 5.0
MinRatings == {50, 70}

\* A call of assess_humor_quality(posts, min_rating), one answer per post
AssessHumorQuality ==
    /\ probe = NoProbe
    /\ \E n \in 0..MaxPosts, min_rating \in MinRatings :
          \E responses \in [1..n -> AssessorResponses] :
             probe' = [ fn         |-> "assess_humor_quality",
                        responses  |-> responses,
                        min_rating |-> min_rating,
                        result     |-> assess_humor_quality(
                                           [i \in 1..n |-> FetchedPost(i, 1, 0)],
                                           min_rating,
                                           [i \in 1..n |-> assess_single_post(responses[i])]) ]
    /\ UNCHANGED organizer

\* The script create_engaging_script has composed and passed through
\* _optimize_for_tts, as _ensure_optimal_length sees it: the lengths of the
\* pieces re.split(r'[.!?]+', script) gives, and the length of each run of
\* sentence marks between two pieces.
SentenceLengths == {0, 1, 300, 949, 950, 999}

Scripts ==
    UNION { [ sentences : [1..n -> SentenceLengths], marks : {1, 3} ] : n \in 1..MaxSentences }

RECURSIVE SumOfLengths(_)
SumOfLengths(lengths) ==
    IF lengths = <<>> THEN 0 ELSE Head(lengths) + SumOfLengths(Tail(lengths))

\* len(script)
ScriptLength(script) ==
    SumOfLengths(script.sentences) + (Len(script.sentences) - 1) * script.marks

\* len() of the endings random.choice draws from
EndingLengths == {25, 26, 31, 43}

\* The loop of _ensure_optimal_length: the length of truncated once the
\* first sentence that does not fit is met; each kept sentence adds ". "
RECURSIVE TruncatedLength(_, _, _)
TruncatedLength(sentences, truncated, limit) ==
    IF sentences = <<>> THEN truncated
    ELSE IF truncated + Head(sentences) + 1 <= limit
         THEN TruncatedLength(Tail(sentences), truncated + Head(sentences) + 2, limit)
         ELSE truncated

\* _ensure_optimal_length as it would be without the 50 characters left
\* for the ending
ensure_optimal_length_without_room(script, ending) ==
    IF ScriptLength(script) <= 1000 THEN ScriptLength(script)
    ELSE TruncatedLength(script.sentences, 0, 1000) + ending

\* _ensure_optimal_length(script, max_chars=1000): the length of the string
\* it returns
ensure_optimal_length(script, ending) ==
    IF ScriptLength(script) <= 1000 THEN ScriptLength(script)
    ELSE TruncatedLength(script.sentences, 0, 1000 - 50) + ending

\* A call of create_engaging_script: its last step is _ensure_optimal_length
CreateEngagingScript ==
    /\ probe = NoProbe
    /\ \E script \in Scripts, ending \in EndingLengths :
          probe' = [ fn     |-> "create_engaging_script",
                     script |-> script,
                     ending |-> ending,
                     result |-> ensure_optimal_length(script, ending) ]
    /\ UNCHANGED organizer

\* The videos, by file name.  A path is <<folder, name>>: "output" is
\* output_videos, where VideoCreator writes; "ready" and "uploaded" are its
\* ready_to_upload and uploaded subfolders.
Videos == 1..MaxVideos

NoPath == <<"", 0>>

NoOrganizerCall == [fn |-> "", path |-> NoPath, found |-> FALSE]

\* queue.append(queue_item); queue.sort(key=priority, reverse=True): the
\* sort is stable and the queue was sorted, so the item goes behind the
\* items of its priority or more
RECURSIVE InsertByPriority(_, _)
InsertByPriority(item, queue) ==
    IF queue = <<>> THEN <<item>>
    ELSE IF Head(queue).priority >= item.priority
         THEN <<Head(queue)>> \o InsertByPriority(item, Tail(queue))
         ELSE <<item>> \o queue

\* [item for item in queue if item['video_path'] != video_path]
RECURSIVE WithoutPath(_, _)
WithoutPath(queue, video_path) ==
    IF queue = <<>> THEN <<>>
    ELSE IF Head(queue).video_path # video_path
         THEN <<Head(queue)>> \o WithoutPath(Tail(queue), video_path)
         ELSE WithoutPath(Tail(queue), video_path)

\* VideoCreator.create_tiktok_video has written the file into output_videos
RenderVideo ==
    /\ \E v \in Videos :
          /\ organizer.files[v] = "none"
          /\ organizer.metadata[v] = NoPath
          /\ organizer' = [organizer EXCEPT !.files[v] = "output",
                                            !.last_call = NoOrganizerCall]
    /\ UNCHANGED probe

\* save_video_metadata(post, video_path, audio_path) with the path the
\* creator returned: _add_to_upload_queue stores the item under that path,
\* then _move_to_ready_folder moves the file and the metadata returned
\* carries the new path (the old one when the file could not be moved).
SaveVideoMetadata ==
    /\ \E v \in Videos, humor_rating \in {70, 90} :
          LET video_path == <<"output", v>>
              moved      == organizer.files[v] = "output"
              ready_path == IF moved THEN <<"ready", v>> ELSE video_path
          IN /\ organizer.metadata[v] = NoPath
             /\ organizer' =
                   [organizer EXCEPT
                       !.queue     = InsertByPriority([video_path |-> video_path,
                                                       priority   |-> humor_rating], @),
                       !.files[v]  = IF moved THEN "ready" ELSE @,
                       !.metadata[v] = ready_path,
                       !.last_call = [fn |-> "save_video_metadata", path |-> video_path,
                                      found |-> moved]]
    /\ UNCHANGED probe

\* mark_as_uploaded(video_path): shutil.move to the uploaded folder, then
\* the queue without the items stored under video_path; when the move
\* raises (no file at video_path) the except clause logs and nothing changes.
MarkAsUploaded ==
    /\ \E v \in Videos, folder \in {"output", "ready"} :
          LET video_path == <<folder, v>>
              found      == organizer.files[v] = folder
          IN /\ organizer.metadata[v] # NoPath
             /\ organizer' =
                   [organizer EXCEPT
                       !.files[v]  = IF found THEN "uploaded" ELSE @,
                       !.queue     = IF found THEN WithoutPath(@, video_path) ELSE @,
                       !.last_call = [fn |-> "mark_as_uploaded", path |-> video_path,
                                      found |-> found]]
    /\ UNCHANGED probe

\* VideoOrganizer before any video has been saved
NoOrganizer ==
    [ files     |-> [v \in Videos |-> "none"],
      queue     |-> <<>>,
      metadata  |-> [v \in Videos |-> NoPath],
      last_call |-> NoOrganizerCall ]

\* No function of the library has been called
LibraryAtRest ==
    /\ probe = NoProbe
    /\ organizer = NoOrganizer

----------------------------------------------------------------------------
(* Specification of the agent *)

AgentInit ==
    /\ pc = "idle"
    /\ state = InitialState
    /\ config \in AgentConfigs
    /\ calls = <<>>
    /\ started = <<>>
    /\ first_error = NoError
    /\ edge_available \in BOOLEAN

Init == AgentInit /\ SchedulerAtRest /\ TickAtRest /\ CallersAtRest /\ LibraryAtRest

Next ==
    \/ (Run /\ UNCHANGED <<schedVars, tickVars, callVars, libVars>>)
    \/ (FetchContent /\ UNCHANGED <<schedVars, tickVars, callVars, libVars>>)
    \/ (AssessQuality /\ UNCHANGED <<schedVars, tickVars, callVars, libVars>>)
    \/ (SelectBest /\ UNCHANGED <<schedVars, tickVars, callVars, libVars>>)
    \/ (GenerateScript /\ UNCHANGED <<schedVars, tickVars, callVars, libVars>>)
    \/ (CreateAudio /\ UNCHANGED <<schedVars, tickVars, callVars, libVars>>)
    \/ (CreateVideo /\ UNCHANGED <<schedVars, tickVars, callVars, libVars>>)
    \/ (OrganizeOutput /\ UNCHANGED <<schedVars, tickVars, callVars, libVars>>)
    \/ (Return /\ UNCHANGED <<schedVars, tickVars, callVars, libVars>>)

Spec == Init /\ [][Next]_vars

----------------------------------------------------------------------------
(* Specification of the scheduler's admission check *)

\* The agent as it stands while only the scheduler is exercised
AgentAtRest ==
    /\ pc = "idle"
    /\ state = InitialState
    /\ config = [selection_strategy |-> "highest_rated", min_humor_rating |-> 70]
    /\ calls = <<>>
    /\ started = <<>>
    /\ first_error = NoError
    /\ edge_available = TRUE

\* SCHEDULE_QUIET_HOURS: the default, a range within one day, an empty range
QuietRanges == {<<23, 6>>, <<9, 17>>, <<0, 0>>}

ScheduleConfigs ==
    [ quiet_hours        : QuietRanges,
      weekend_schedule   : BOOLEAN,
      max_videos_per_day : {1, MaxDailyVideos},
      min_gap_minutes    : {DefaultMinGapMinutes} ]

\* Friday, Saturday, Sunday and Monday, on the hour
StartTimes == { d * 1440 + h * 60 : d \in {4, 5, 6, 7}, h \in 0..23 }

\* scheduler_stats.json as found: absent, unreadable, readable without its
\* daily counts, or with counts for today and for the day before
StatsFiles(t) ==
    { [DefaultStats EXCEPT !.kind = k] : k \in {"absent", "corrupt"} }
    \cup { [DefaultStats EXCEPT !.missing = {"daily_video_count"}] }
    \cup { [DefaultStats EXCEPT !.daily_video_count =
                (DateOf(t) :> today) @@ ((DateOf(t) - 1) :> before)] :
             today \in 0..MaxDailyVideos, before \in {0, MaxDailyVideos} }

\* last_run.json as found: absent, unreadable, without a timestamp, or
\* stamped around the minimum gap before t (or after t: the clock was set back)
LastRunFiles(t, cfg) ==
    { NoLastRun,
      [kind |-> "corrupt", has_timestamp |-> FALSE, timestamp |-> 0, status |-> ""],
      [kind |-> "ok", has_timestamp |-> FALSE, timestamp |-> 0, status |-> ""] }
    \cup { [kind |-> "ok", has_timestamp |-> TRUE, timestamp |-> t - gap,
            status |-> "success"] :
             gap \in { -1, 0, cfg.min_gap_minutes - 1, cfg.min_gap_minutes,
                       cfg.min_gap_minutes + 1 } }

SchedInit ==
    /\ AgentAtRest
    /\ schedule_config \in ScheduleConfigs
    /\ now \in StartTimes
    /\ stats_file \in StatsFiles(now)
    /\ last_run_file \in LastRunFiles(now, schedule_config)
    /\ admission = NoAdmission
    /\ TickAtRest
    /\ CallersAtRest
    /\ LibraryAtRest

SchedNext ==
    \/ (CheckAdmission /\ UNCHANGED <<agentVars, tickVars, callVars, libVars>>)
    \/ (AdvanceClock /\ UNCHANGED <<agentVars, tickVars, callVars, libVars>>)

SchedSpec == SchedInit /\ [][SchedNext]_vars

\* Every quiet range against every hour, the rest of the configuration at its
\* defaults
QuietInit ==
    /\ AgentAtRest
    /\ schedule_config \in [ quiet_hours        : (0..23) \X (0..23),
                             weekend_schedule   : {TRUE},
                             max_videos_per_day : {DefaultMaxVideosPerDay},
                             min_gap_minutes    : {DefaultMinGapMinutes} ]
    /\ now \in { h * 60 : h \in 0..23 }
    /\ stats_file = DefaultStats
    /\ last_run_file = NoLastRun
    /\ admission = NoAdmission
    /\ TickAtRest
    /\ CallersAtRest
    /\ LibraryAtRest

QuietSpec == QuietInit /\ [][SchedNext]_vars

----------------------------------------------------------------------------
(* Specification of the scheduler's ticks: one scheduler process, the files
   as the scheduler itself leaves them *)

TickConfigs ==
    [ quiet_hours        : {<<23, 6>>, <<0, 0>>},
      weekend_schedule   : BOOLEAN,
      max_videos_per_day : {1, DefaultMaxVideosPerDay},
      min_gap_minutes    : {DefaultMinGapMinutes} ]

\* Friday 08:00, Friday 20:00, Sunday 20:00
TickStartTimes == {4 * 1440 + 8 * 60, 4 * 1440 + 20 * 60, 6 * 1440 + 20 * 60}

\* scheduler_stats.json as the scheduler leaves it: absent before the first
\* start, truncated by a write that was cut short, or complete
OwnStatsFiles == {[DefaultStats EXCEPT !.kind = "absent"], TruncatedStats, DefaultStats}

OwnLastRunFiles(t) ==
    {NoLastRun, TruncatedLastRun, run_data(t - 10, CrashResult)}

TickInit ==
    /\ AgentAtRest
    /\ schedule_config \in TickConfigs
    /\ now \in TickStartTimes
    /\ stats_file \in OwnStatsFiles
    /\ last_run_file \in OwnLastRunFiles(now)
    /\ admission = NoAdmission
    /\ TickAtRest
    /\ CallersAtRest
    /\ LibraryAtRest

TickStep(p) ==
    \/ TickAdmission(p)
    \/ TickRun(p)
    \/ RecordRunOpen(p)
    \/ RecordRunDump(p)
    \/ UpdateStatsLoad(p)
    \/ SaveStatsOpen(p)
    \/ SaveStatsDump(p)
    \/ PrintRunSummary(p)

TickNext ==
    \/ (TickStep(1) /\ UNCHANGED <<agentVars, callVars, libVars>>)
    \/ (WaitForNextRun /\ UNCHANGED <<agentVars, callVars, libVars>>)

TickSpec == TickInit /\ [][TickNext]_vars

----------------------------------------------------------------------------
(* Specification of the stores under two scheduler processes that can be
   killed: each is started with the `once` command, on a Friday morning
   with no quiet hours, and makes the one tick of run_once *)

StoreInit ==
    /\ AgentAtRest
    /\ schedule_config = [quiet_hours |-> <<0, 0>>, weekend_schedule |-> TRUE,
                          max_videos_per_day |-> DefaultMaxVideosPerDay,
                          min_gap_minutes |-> DefaultMinGapMinutes]
    /\ now = 4 * 1440 + 8 * 60
    /\ stats_file \in OwnStatsFiles
    /\ last_run_file \in OwnLastRunFiles(now)
    /\ admission = NoAdmission
    /\ TickAtRest
    /\ CallersAtRest
    /\ LibraryAtRest

\* run_once: asyncio.run(self.create_scheduled_video()), then the process ends
run_once(p) == (spc[p] = "idle" => tick[p].number = 0) /\ TickStep(p)

StoreNext ==
    \/ \E p \in Procs : (run_once(p) /\ UNCHANGED <<agentVars, callVars, libVars>>)
    \/ \E p \in Procs : (Crash(p) /\ UNCHANGED <<agentVars, callVars, libVars>>)

StoreSpec == StoreInit /\ [][StoreNext]_vars

\* scheduler_stats.json as another program or version may have left it:
\* well-formed, without some of its keys ({} lacks them all)
StatsKeys ==
    {"total_scheduled_runs", "successful_runs", "failed_runs", "videos_created",
     "average_humor_rating", "daily_video_count"}

ForeignStatsFiles ==
    { [DefaultStats EXCEPT !.missing = m] :
        m \in {StatsKeys, {"daily_video_count"}, {"total_scheduled_runs"},
               {"successful_runs"}, {"average_humor_rating"}} }

\* last_run.json without its timestamp
ForeignLastRunFiles ==
    { [kind |-> "ok", has_timestamp |-> FALSE, timestamp |-> 0, status |-> ""] }

ForeignInit ==
    /\ AgentAtRest
    /\ schedule_config \in TickConfigs
    /\ now \in TickStartTimes
    /\ stats_file \in OwnStatsFiles \cup ForeignStatsFiles
    /\ last_run_file \in OwnLastRunFiles(now) \cup ForeignLastRunFiles
    /\ admission = NoAdmission
    /\ TickAtRest
    /\ CallersAtRest
    /\ LibraryAtRest

ForeignSpec == ForeignInit /\ [][TickNext]_vars

----------------------------------------------------------------------------
(* Specification of the agent with a second caller of run() *)

BusyNext ==
    \/ Next
    \/ (ConcurrentRun /\ UNCHANGED <<schedVars, tickVars, batch, libVars>>)
    \/ (ConcurrentReturn /\ UNCHANGED <<schedVars, tickVars, batch, libVars>>)

BusySpec == Init /\ [][BusyNext]_vars

----------------------------------------------------------------------------
(* Specification of _get_optimal_config: every hour of the day, every base
   configuration and peak-hour setting *)

OptimalInit ==
    /\ AgentAtRest
    /\ schedule_config = [quiet_hours |-> <<23, 6>>, weekend_schedule |-> TRUE,
                          max_videos_per_day |-> DefaultMaxVideosPerDay,
                          min_gap_minutes |-> DefaultMinGapMinutes]
    /\ now \in { h * 60 : h \in 0..23 }
    /\ stats_file = DefaultStats
    /\ last_run_file = NoLastRun
    /\ admission = NoAdmission
    /\ TickAtRest
    /\ CallersAtRest
    /\ LibraryAtRest

OptimalNext ==
    \/ (GetOptimalConfig /\ UNCHANGED <<agentVars, schedVars, tickVars, callVars>>)

OptimalSpec == OptimalInit /\ [][OptimalNext]_vars

----------------------------------------------------------------------------
(* Specification of the assessor: every answer text for every post *)

LibraryInit == AgentAtRest /\ SchedulerAtRest /\ TickAtRest /\ CallersAtRest /\ LibraryAtRest

AssessNext ==
    \/ (AssessHumorQuality /\ UNCHANGED <<agentVars, schedVars, tickVars, callVars>>)

AssessSpec == LibraryInit /\ [][AssessNext]_vars

----------------------------------------------------------------------------
(* Specification of the script writer: every script of up to MaxSentences
   sentences *)

ScriptNext ==
    \/ (CreateEngagingScript /\ UNCHANGED <<agentVars, schedVars, tickVars, callVars>>)

ScriptSpec == LibraryInit /\ [][ScriptNext]_vars

----------------------------------------------------------------------------
(* Specification of the daily limit: one scheduler process, ticks every
   interval_hours from a Friday afternoon or evening on, no quiet hours, and
   runs that can last past midnight *)

\* Friday 15:50, 19:50 and 23:50
DayStartTimes == { 4 * 1440 + h * 60 + 50 : h \in {15, 19, 23} }

DayInit ==
    /\ AgentAtRest
    /\ schedule_config \in [ quiet_hours        : {<<0, 0>>},
                             weekend_schedule   : {TRUE},
                             max_videos_per_day : {1, 2},
                             min_gap_minutes    : {DefaultMinGapMinutes} ]
    /\ now \in DayStartTimes
    /\ stats_file \in OwnStatsFiles
    /\ last_run_file = NoLastRun
    /\ admission = NoAdmission
    /\ TickAtRest
    /\ CallersAtRest
    /\ LibraryAtRest

DayNext ==
    \/ (TickStep(1) /\ UNCHANGED <<agentVars, callVars, libVars>>)
    \/ (RunLasts(1) /\ UNCHANGED <<agentVars, callVars, libVars>>)
    \/ (WaitForNextRun /\ UNCHANGED <<agentVars, callVars, libVars>>)

DaySpec == DayInit /\ [][DayNext]_vars

----------------------------------------------------------------------------
(* Specification of the video organizer: up to MaxVideos videos rendered,
   saved and marked as uploaded in any order *)

OrganizerNext ==
    \/ (RenderVideo /\ UNCHANGED <<agentVars, schedVars, tickVars, callVars>>)
    \/ (SaveVideoMetadata /\ UNCHANGED <<agentVars, schedVars, tickVars, callVars>>)
    \/ (MarkAsUploaded /\ UNCHANGED <<agentVars, schedVars, tickVars, callVars>>)

OrganizerSpec == LibraryInit /\ [][OrganizerNext]_vars

----------------------------------------------------------------------------
(* Specification of run_batch *)

BatchNext ==
    \/ (RunBatch /\ UNCHANGED <<schedVars, tickVars, other_run, libVars>>)
    \/ (BatchIteration /\ UNCHANGED <<schedVars, tickVars, other_run, libVars>>)
    \/ (BatchReturn /\ UNCHANGED <<schedVars, tickVars, other_run, libVars>>)

BatchSpec == Init /\ [][BatchNext]_vars

----------------------------------------------------------------------------
(* Properties of the agent's run *)

\* The collaborators a failed run must not reach
GuardedCollaborators ==
    {"create_engaging_script", "generate_speech_openai", "generate_speech_edge",
     "create_tiktok_video", "save_video_metadata"}

CallsOf(fns) == SelectSeq(calls, LAMBDA c : c.fn \in fns)

\* C1: once a node has set creation_status to 'failed', no later node of the
\* run invokes the script writer, a synthesizer, the renderer or the
\* metadata persister.
C1_ShortCircuitAfterFailure ==
    [][ (pc \in Nodes /\ state.creation_status = "failed")
            => \A i \in 1..Len(calls') :
                   i > Len(calls) => calls'[i].fn \notin GuardedCollaborators ]_vars

\* C2: a failed status is never overwritten: when a node failed, the state
\* run() returns is 'failed' with the error message of the first failing
\* node, and 'success' is returned only when no node failed.
C2_FailureIsFinal ==
    (pc = "END" /\ first_error # NoError)
        => /\ state.creation_status = "failed"
           /\ state.error_message = first_error

\* C3: when the assessor returns an empty list for a non-empty fetched set,
\* run() returns 'failed' with the quality-threshold message and the script
\* writer, the synthesizers, the renderer and the persister are never invoked.
C3_NoQualityPosts ==
    (pc = "END" /\ first_error.detail = "No posts met quality threshold")
        => /\ state.creation_status = "failed"
           /\ state.error_message.detail = "No posts met quality threshold"
           /\ CallsOf(GuardedCollaborators) = <<>>

\* The order of the stages: fetch, assess, select, script, synthesize, render, organize
StageOrder ==
    <<"fetch_content", "assess_quality", "select_best", "generate_script",
      "create_audio", "create_video", "organize_output">>

\* C4: within one run the nodes start in the fixed order, each once, the
\* next one only when the previous has returned; a run that ended started
\* all seven.
C4_StagesInOrder ==
    /\ Len(started) <= Len(StageOrder)
    /\ \A i \in 1..Len(started) : started[i] = StageOrder[i]
    /\ pc \in Nodes => /\ Len(started) < Len(StageOrder)
                       /\ pc = StageOrder[Len(started) + 1]
    /\ pc = "END" => started = StageOrder

C4_Witness == pc = "END" /\ started = StageOrder /\ state.creation_status = "failed"

PrimaryRaised ==
    \E i \in 1..Len(calls) : calls[i] = Call("generate_speech_openai", TRUE)

SecondaryRaised ==
    \E i \in 1..Len(calls) : calls[i] = Call("generate_speech_edge", TRUE)

\* C5 as stated: whenever the primary synthesis call raises, the secondary
\* service is invoked exactly once.
C5_SecondaryAlwaysTried ==
    PrimaryRaised => Len(CallsOf({"generate_speech_edge"})) = 1

\* C5, amended: when the primary raises and Edge TTS is available the
\* secondary is invoked exactly once, and if it raises too the stage fails
\* with the secondary's error after exactly two synthesis invocations; when
\* Edge TTS is not available the secondary is not invoked and the stage fails
\* with the primary's error; when the primary succeeds the secondary is
\* never invoked.
C5_FallbackWhenAvailable ==
    /\ Len(CallsOf({"generate_speech_openai"})) <= 1
    /\ (PrimaryRaised /\ edge_available)
           => Len(CallsOf({"generate_speech_edge"})) = 1
    /\ (PrimaryRaised /\ ~edge_available)
           => /\ CallsOf({"generate_speech_edge"}) = <<>>
              /\ pc = "create_video"
                    => /\ state.creation_status = "failed"
                       /\ state.error_message = StageError("TTS error", "openai_error")
    /\ SecondaryRaised
           => /\ Len(CallsOf({"generate_speech_openai", "generate_speech_edge"})) = 2
              /\ pc = "create_video"
                    => /\ state.creation_status = "failed"
                       /\ state.error_message = StageError("TTS error", "edge_error")
    /\ ~PrimaryRaised => CallsOf({"generate_speech_edge"}) = <<>>

C5_Witness == pc = "create_video" /\ PrimaryRaised /\ SecondaryRaised

----------------------------------------------------------------------------
(* Properties of the admission check.  admission holds the outcome of a
   call made at time now, on the configuration and the files of the state. *)

\* Quiet hours as specified: the range wraps midnight when its start is
\* after its end
QuietCondition ==
    LET h  == HourOf(now)
        qs == schedule_config.quiet_hours[1]
        qe == schedule_config.quiet_hours[2]
    IN \/ (qs > qe /\ (h >= qs \/ h < qe))
       \/ (qs <= qe /\ qs <= h /\ h < qe)

\* Saturday or Sunday while weekend runs are disabled
WeekendCondition ==
    schedule_config.weekend_schedule = FALSE /\ WeekdayOf(now) \in {5, 6}

\* The persisted count of today's date; zero when none is persisted
PersistedCountToday ==
    IF stats_file.kind = "ok" /\ "daily_video_count" \notin stats_file.missing
       /\ DateOf(now) \in DOMAIN stats_file.daily_video_count
    THEN stats_file.daily_video_count[DateOf(now)]
    ELSE 0

QuotaCondition == PersistedCountToday >= schedule_config.max_videos_per_day

HasLastRunRecord == last_run_file.kind = "ok" /\ last_run_file.has_timestamp

GapCondition ==
    HasLastRunRecord /\ now < last_run_file.timestamp + schedule_config.min_gap_minutes

\* C6: the conditions are evaluated in the order quiet hours, weekend gate,
\* daily quota, minimum gap, and the reason returned is that of the first
\* condition that denies, whichever later ones hold too.
C6_EarliestDenialReason ==
    (admission.called /\ ~admission.raised)
        => /\ QuietCondition => admission.reason = "Quiet hours"
           /\ (~QuietCondition /\ WeekendCondition)
                  => admission.reason = "Weekend creation disabled"
           /\ (~QuietCondition /\ ~WeekendCondition /\ QuotaCondition)
                  => admission.reason = "Daily limit reached"
           /\ (~QuietCondition /\ ~WeekendCondition /\ ~QuotaCondition /\ GapCondition)
                  => admission.reason = "Too soon since last run"

C6_Witness ==
    /\ admission.called
    /\ QuietCondition /\ WeekendCondition /\ QuotaCondition /\ GapCondition
    /\ admission = Returned(FALSE, "Quiet hours")

\* C7: for every hour and every quiet range the check denies for quiet
\* hours exactly when the hour lies in the range, a range whose start is
\* after its end wrapping midnight.
C7_QuietHoursExact ==
    admission.called
        => ((admission.reason = "Quiet hours" /\ ~admission.allowed) <=> QuietCondition)

C7_Witness ==
    /\ schedule_config.quiet_hours = <<23, 6>>
    /\ HourOf(now) = 5
    /\ admission = Returned(FALSE, "Quiet hours")

\* All checks other than the minimum gap pass
OthersPass ==
    /\ ~QuietCondition /\ ~WeekendCondition /\ ~QuotaCondition
    /\ ~admission.raised

\* C8: with a last-run record stamped T and minimum gap M, all other checks
\* passing, the check denies before T + M and allows at T + M and after.
C8_GapBoundary ==
    (admission.called /\ HasLastRunRecord /\ OthersPass)
        => /\ admission.allowed
                <=> now >= last_run_file.timestamp + schedule_config.min_gap_minutes
           /\ ~admission.allowed => admission.reason = "Too soon since last run"

C8_Witness ==
    /\ HasLastRunRecord
    /\ now = last_run_file.timestamp + schedule_config.min_gap_minutes
    /\ schedule_config.min_gap_minutes = DefaultMinGapMinutes
    /\ admission = Returned(TRUE, "All checks passed")

\* C9: whenever the persisted count of today's date has reached
\* max_videos_per_day the check denies, whatever the other settings.
C9_QuotaDenies ==
    ( /\ admission.called
      /\ stats_file.kind = "ok"
      /\ DateOf(now) \in DOMAIN stats_file.daily_video_count
      /\ stats_file.daily_video_count[DateOf(now)] >= schedule_config.max_videos_per_day )
        => (~admission.raised /\ ~admission.allowed)

C9_Witness ==
    /\ schedule_config.max_videos_per_day = MaxDailyVideos
    /\ PersistedCountToday = MaxDailyVideos
    /\ admission = Returned(FALSE, "Daily limit reached")

\* C10: the check returns allowed = true exactly when none of the four
\* denial conditions holds, whatever the stats and last-run files hold.
C10_AllowedIffNoDenial ==
    admission.called
        => (admission.allowed
                <=> (~QuietCondition /\ ~WeekendCondition /\ ~QuotaCondition /\ ~GapCondition))

----------------------------------------------------------------------------
(* Properties of the scheduler's ticks.  tick[1] holds what the tick of the
   scheduler process has done; the files are complete while it is idle. *)

RECURSIVE SumOfCounts(_)
SumOfCounts(counts) ==
    IF DOMAIN counts = {} THEN 0
    ELSE LET d == CHOOSE x \in DOMAIN counts : TRUE
         IN counts[d] + SumOfCounts([x \in DOMAIN counts \ {d} |-> counts[x]])

RECURSIVE SumOfSeq(_)
SumOfSeq(s) == IF s = <<>> THEN 0 ELSE Head(s) + SumOfSeq(Tail(s))

\* The tick of the scheduler process was admitted and has returned
AdmittedTickReturned == spc[1] = "idle" /\ admission.called /\ admission.allowed

RunSucceeded == ~tick[1].outcome.raised /\ tick[1].outcome.status = "success"

One(condition) == IF condition THEN 1 ELSE 0

\* C11: an admitted tick adds one to total_scheduled_runs and one to exactly
\* one of successful_runs and failed_runs; videos_created and today's count
\* grow by one exactly when the run succeeded; so between ticks
\* total_scheduled_runs = successful_runs + failed_runs and videos_created
\* is the sum of the daily counts.
C11_TickAccounting ==
    LET after  == load_stats(stats_file)
        before == tick[1].stats_before
    IN /\ AdmittedTickReturned
            => /\ after.total_scheduled_runs = before.total_scheduled_runs + 1
               /\ after.successful_runs = before.successful_runs + One(RunSucceeded)
               /\ after.failed_runs = before.failed_runs + One(~RunSucceeded)
               /\ after.videos_created = before.videos_created + One(RunSucceeded)
               /\ Get(after.daily_video_count, DateOf(now), 0)
                      = Get(before.daily_video_count, DateOf(now), 0) + One(RunSucceeded)
       /\ spc[1] = "idle"
            => /\ after.total_scheduled_runs = after.successful_runs + after.failed_runs
               /\ after.videos_created = SumOfCounts(after.daily_video_count)

C11_Witness ==
    /\ AdmittedTickReturned
    /\ tick[1].number = 3
    /\ stats_file.successful_runs = 2
    /\ stats_file.failed_runs = 1
    /\ Cardinality(DOMAIN stats_file.daily_video_count) = 2

\* C12: between ticks the persisted average_humor_rating is the arithmetic
\* mean of the ratings of all recorded successful runs, a run without a
\* rating counting with its rating 0.
C12_AverageIsMean ==
    (spc[1] = "idle" /\ recorded # <<>>)
        => LET average == load_stats(stats_file).average_humor_rating
           IN average.num * Len(recorded) = SumOfSeq(recorded) * average.den

\* Another process is between the open and the close of the same file
OtherWrites(p, position) == \E q \in Procs \ {p} : spc[q] = position

\* C13: the writes of the stats file and of the last-run record are atomic:
\* when a process is killed between the open and the close of a file (and
\* no other process has it open) the file left is complete.
C13_WritesAreAtomic ==
    [][ \A p \in Procs :
          (spc[p] # "dead" /\ spc'[p] = "dead")
              => /\ (spc[p] = "save_w" /\ ~OtherWrites(p, "save_w"))
                        => stats_file'.kind = "ok"
                 /\ (spc[p] = "record_w" /\ ~OtherWrites(p, "record_w"))
                        => last_run_file'.kind = "ok" ]_vars

\* A step in which the scheduler process calls _load_stats, or returns
\* from the admission check before it
LoadingStep == spc[1] \in {"idle", "update", "summary"} /\ spc'[1] # spc[1]

C15_MissingFieldsDefault ==
    /\ spc[1] # "raised"
    /\ (local[1].handling => tick[1].outcome.raised)

\* C16: no update of the stats file is lost: while no process is inside a
\* tick and none was killed, total_scheduled_runs counts every completed
\* _update_stats call.
C16_NoLostUpdate ==
    (\A p \in Procs : spc[p] = "idle")
        => load_stats(stats_file).total_scheduled_runs = tick[1].updates + tick[2].updates

\* C18: whatever the agent's run did in an admitted tick (a failed result
\* or an exception), no exception leaves create_scheduled_video, the
\* outcome is in the last-run record and in the stats, and the loop can go
\* on to its next tick.
C18_FailedRunIsRecorded ==
    /\ spc[1] # "raised"
    /\ (AdmittedTickReturned /\ ~RunSucceeded)
           => /\ last_run_file =
                     run_data(now, IF tick[1].outcome.raised THEN CrashResult
                                   ELSE tick[1].outcome)
              /\ load_stats(stats_file).failed_runs = tick[1].stats_before.failed_runs + 1
              /\ load_stats(stats_file).total_scheduled_runs
                     = tick[1].stats_before.total_scheduled_runs + 1
    /\ AdmittedTickReturned => ENABLED WaitForNextRun

C18_Witness ==
    /\ AdmittedTickReturned
    /\ tick[1].number = 2
    /\ tick[1].outcome.raised
    /\ last_run_file.status = "crashed"
    /\ stats_file.failed_runs = 2

\* C19: a tick whose admission check denies does not call the agent and
\* leaves the counters, the daily counts, the average and the last-run
\* record as they were; the agent is called at most once in a tick, and
\* only after the check allowed.
C19_DeniedTickChangesNothing ==
    /\ (admission.called /\ ~admission.raised /\ ~admission.allowed)
           => /\ spc[1] = "idle"
              /\ tick[1].engine_calls = 0
              /\ load_stats(stats_file) = tick[1].stats_before
              /\ last_run_file = tick[1].last_run_before
    /\ tick[1].engine_calls <= 1
    /\ (admission.called /\ tick[1].engine_calls = 1) => admission.allowed

C19_Witness ==
    /\ admission = Returned(FALSE, "Daily limit reached")
    /\ tick[1].number = 2
    /\ stats_file.videos_created = 1
    /\ last_run_file.status = "success"

\* C17: a call of run() made while an earlier run() on the same instance has
\* not returned is rejected as busy, and leaves the first run's pipeline
\* state and the configuration its remaining stages read as they were.
C17_SecondRunRejected ==
    [][ (pc \in Nodes /\ other_run = "none" /\ other_run' # "none")
            => /\ other_run' = "busy"
               /\ state' = state
               /\ config' = config ]_vars

\* C20: run_batch(n) makes exactly n calls of run() and returns exactly n
\* results in iteration order, one per iteration, a failed or raising
\* iteration giving one failed result and not stopping the later ones.
C20_BatchGivesOneResultPerIteration ==
    batch.status \in {"returned", "raised"}
        => /\ batch.status = "returned"
           /\ batch.run_calls = batch.count
           /\ Len(batch.results) = batch.count
           /\ \A k \in 1..Len(batch.results) :
                  batch.results[k].creation_status
                      = (IF batch.outcomes[k] = "success" THEN "success" ELSE "failed")

\* Whether the hour lies in one of the ranges [start, end)
InPeakRange(hour, peak_hours) ==
    \E r \in { peak_hours[i] : i \in 1..Len(peak_hours) } : hour \in r[1]..(r[2] - 1)

\* C22: at an hour inside a peak range [start, end) the configuration the
\* scheduler returns has minimum rating max(7.5, base), fetch limit
\* min(15, base) and the 'dynamic' style; an hour that is the end of a range
\* and inside no range is not peak.
C22_PeakConfig ==
    probe.fn = "get_optimal_config"
        => /\ InPeakRange(probe.hour, probe.peak_hours)
                => /\ probe.peak
                   /\ probe.result.min_humor_rating
                          = (IF probe.base_config.min_humor_rating > 75
                             THEN probe.base_config.min_humor_rating ELSE 75)
                   /\ probe.result.post_limit
                          = (IF probe.base_config.post_limit < 15
                             THEN probe.base_config.post_limit ELSE 15)
                   /\ probe.result.video_style = "dynamic"
           /\ ( /\ \E i \in 1..Len(probe.peak_hours) : probe.hour = probe.peak_hours[i][2]
                /\ ~InPeakRange(probe.hour, probe.peak_hours) )
                => /\ ~probe.peak
                   /\ probe.result.min_humor_rating = probe.base_config.min_humor_rating
                   /\ probe.result.post_limit = probe.base_config.post_limit

C22_Witness ==
    /\ probe.fn = "get_optimal_config"
    /\ probe.hour = 12
    /\ probe.peak_hours = <<<<12, 14>>, <<19, 21>>>>
    /\ probe.base_config.min_humor_rating = 70
    /\ probe.base_config.post_limit = 20
    /\ probe.result.min_humor_rating = 75
    /\ probe.result.post_limit = 15

\* C23: outside peak time the configuration the scheduler returns is the
\* base configuration, in every field, the render style included.
C23_OffPeakConfigIsBase ==
    (probe.fn = "get_optimal_config" /\ ~InPeakRange(probe.hour, probe.peak_hours))
        => probe.result = probe.base_config

\* C21: with the highest-rated strategy the selected post has the maximum
\* rating of the assessed list, and among posts sharing that rating it is the
\* one that comes first in the list.
C21_HighestRatedFirstAmongTies ==
    (config.selection_strategy = "highest_rated" /\ ~IsEmptyDict(state.selected_post))
        => \E i \in 1..Len(state.posts) :
              /\ state.posts[i] = state.selected_post
              /\ \A j \in 1..Len(state.posts) :
                     state.posts[j].humor_rating <= state.selected_post.humor_rating
              /\ \A k \in 1..(i - 1) :
                     state.posts[k].humor_rating < state.selected_post.humor_rating

C21_Witness ==
    /\ config.selection_strategy = "highest_rated"
    /\ Len(state.posts) = 2
    /\ state.posts[1].humor_rating = 80
    /\ state.posts[2].humor_rating = 80
    /\ state.selected_post = state.posts[1]
    /\ state.selected_post # state.posts[2]

\* The key under which each stage's duration belongs in creation_stats
StageKey ==
    [ fetch_content   |-> "fetch_time",
      assess_quality  |-> "assess_time",
      select_best     |-> "select_time",
      generate_script |-> "script_time",
      create_audio    |-> "tts_time",
      create_video    |-> "video_time",
      organize_output |-> "organize_time" ]

\* C24: after a run that ends in success the timing map of the final state
\* holds a duration for each of the seven stages, under that stage's key.
C24_EveryStageTimed ==
    state.creation_status = "success"
        => \A node \in Nodes : StageKey[node] \in state.creation_stats

\* Whether save_video_metadata has written the metadata of the current run
MetadataPersisted ==
    \E k \in 1..Len(calls) : calls[k] = Call("save_video_metadata", FALSE)

\* C28: when a run persists video metadata or ends in success, the selected
\* post is one of the posts the assessor returned in that run, so it is rated
\* at least the configured minimum, whatever the selection strategy.
C28_SelectedPostWasAccepted ==
    (MetadataPersisted \/ state.creation_status = "success")
        => /\ state.selected_post.rated
           /\ state.selected_post.humor_rating >= config.min_humor_rating
           /\ \E i \in 1..Len(state.posts) : state.posts[i] = state.selected_post

\* C29: the start_time that run() wrote into the timing map is still there
\* when the organize stage reads it, so that total_time is the time since
\* run() started.
C29_StartTimeKept ==
    (pc = "organize_output" \/ \E k \in 1..Len(started) : started[k] = "organize_output")
        => "start_time" \in state.creation_stats

\* C25: every post assess_humor_quality returns carries a rating between 1
\* and 10 that is at least the minimum rating, whatever the assessor answered
\* (answers without a 'RATING:' field and API failures included), and the
\* returned list is in non-increasing order of rating.
C25_RatingsClampedAndSorted ==
    probe.fn = "assess_humor_quality"
        => /\ \A i \in 1..Len(probe.result) :
                  /\ 10 <= probe.result[i].humor_rating
                  /\ probe.result[i].humor_rating <= 100
                  /\ probe.result[i].humor_rating >= probe.min_rating
           /\ \A i \in 1..(Len(probe.result) - 1) :
                  probe.result[i].humor_rating >= probe.result[i + 1].humor_rating

\* C26: the script create_engaging_script returns is at most 1000
\* characters long, also when the raw script is longer and is cut at
\* sentence boundaries with a closing sentence appended.
C26_ScriptAtMost1000 ==
    probe.fn = "create_engaging_script" => probe.result <= 1000

C26_Witness ==
    /\ probe.fn = "create_engaging_script"
    /\ ScriptLength(probe.script) > 1000
    /\ probe.script.sentences[1] = 949
    /\ probe.ending = 43
    /\ probe.result = 994

\* C27: with one driver calling create_scheduled_video sequentially, the
\* persisted daily video count of every date is at most max_videos_per_day,
\* also when a run admitted before midnight finishes after midnight.
C27_DailyCountWithinLimit ==
    \A d \in DOMAIN stats_file.daily_video_count :
        stats_file.daily_video_count[d] <= schedule_config.max_videos_per_day

C27_Witness ==
    /\ schedule_config.max_videos_per_day = 1
    /\ tick[1].number = 2
    /\ admission = Returned(FALSE, "Daily limit reached")
    /\ DateOf(now) = 5
    /\ stats_file.daily_video_count = (5 :> 1)
    /\ last_run_file.timestamp = 5 * 1440 + 10

\* C30: after save_video_metadata has returned metadata m, mark_as_uploaded
\* called with the video path reported in m (the file being there) moves the
\* file to the uploaded folder and removes the video's entry from the upload
\* queue, so that get_upload_queue no longer returns it.
C30_UploadedLeavesQueue ==
    \A v \in Videos :
        ( /\ organizer.last_call.fn = "mark_as_uploaded"
          /\ organizer.last_call.path = organizer.metadata[v]
          /\ organizer.last_call.found )
            => /\ organizer.files[v] = "uploaded"
               /\ \A k \in 1..Len(organizer.queue) : organizer.queue[k].video_path[2] # v

====
